---- MODULE Spec2Model ----
(***************************************************************************)
(* A model of the `tailscale update` command (package cli, update.go).    *)
(*                                                                         *)
(* The command is one sequential process.  Its position is pc, every step *)
(* that talks to the outside world (an HTTP request, a subprocess, a file *)
(* access, a read of the terminal) is one action whose outcome is drawn   *)
(* from a small set, and every such step is appended to trace.            *)
(*                                                                         *)
(* Strings the code inspects character by character (version strings,     *)
(* the operator's answer, the checksum text) are sequences of 1-character *)
(* strings.  Package source files are sequences of chunks: a chunk is a   *)
(* run of bytes the two rewriters never look inside of.                   *)
(***************************************************************************)
EXTENDS Integers, Sequences, FiniteSets, TLC

VARIABLES
    env,         \* the process environment: GOOS, distro, executables, euid, ...
    updateArgs,  \* the parsed flags (var updateArgs)
    args,        \* number of positional arguments handed to runUpdate
    pc,          \* position of the process
    up,          \* the updater built by newUpdater: [track, update]
    ver,         \* the resolved target version (local `ver` of the executors)
    ret,         \* what runUpdate returned: [err, hint]; err = "none" while running
    trace,       \* every I/O step performed so far, in order
    tries,       \* installMSI: loop counter
    err,         \* installMSI: local err
    dl,          \* downloadURLToFile: locals and the responses received
    msiFile,     \* the file at msiTarget: [exists, data]
    aptFile,     \* /etc/apt/sources.list.d/tailscale.list
    yumFile,     \* /etc/yum.repos.d/tailscale.repo
    rw,          \* last ConfigRewriter call: [was, dstTrack, rewrote, err]
    stdin        \* the line up.confirm read from the operator, once it has

vars == <<env, updateArgs, args, pc, up, ver, ret, trace, tries, err, dl,
          msiFile, aptFile, yumFile, rw, stdin>>

-----------------------------------------------------------------------------
(* Strings as sequences of characters *)

Digits == {"0", "1", "2", "3", "4", "5", "6", "7", "8", "9"}

DigitVal(c) ==
    CASE c = "0" -> 0 [] c = "1" -> 1 [] c = "2" -> 2 [] c = "3" -> 3
      [] c = "4" -> 4 [] c = "5" -> 5 [] c = "6" -> 6 [] c = "7" -> 7
      [] c = "8" -> 8 [] c = "9" -> 9

\* strings.Cut(s, sep) for a 1-character sep: <<before, after, found>>
Cut(s, sep) ==
    IF \E i \in 1..Len(s) : s[i] = sep
    THEN LET i == CHOOSE k \in 1..Len(s) :
                      s[k] = sep /\ \A j \in 1..(k - 1) : s[j] # sep
         IN  <<SubSeq(s, 1, i - 1), SubSeq(s, i + 1, Len(s)), TRUE>>
    ELSE <<s, <<>>, FALSE>>

RECURSIVE DecimalValue(_)
DecimalValue(s) ==
    IF s = <<>> THEN 0
    ELSE 10 * DecimalValue(SubSeq(s, 1, Len(s) - 1)) + DigitVal(s[Len(s)])

\* strconv.Atoi(s): <<value, ok>>; an optional sign, then one or more digits
Atoi(s) ==
    LET signed == s # <<>> /\ s[1] \in {"+", "-"}
        body   == IF signed THEN Tail(s) ELSE s
    IN  IF body # <<>> /\ \A i \in 1..Len(body) : body[i] \in Digits
        THEN <<(IF signed /\ s[1] = "-" THEN 0 - DecimalValue(body)
                ELSE DecimalValue(body)), TRUE>>
        ELSE <<0, FALSE>>

\* mutant: the second strings.Cut need not find a dot
versionIsStableTwoParts(v) ==
    LET c1 == Cut(v, ".")
        c2 == Cut(c1[2], ".")
        minor == Atoi(c2[1])
    IN  IF ~c1[3] THEN [stable |-> FALSE, wellFormed |-> FALSE]
        ELSE IF ~minor[2] THEN [stable |-> FALSE, wellFormed |-> FALSE]
        ELSE [stable |-> (minor[1] % 2 = 0), wellFormed |-> TRUE]

\* versionIsStable(v): [stable, wellFormed]
versionIsStable(v) ==
    LET c1 == Cut(v, ".")
        c2 == Cut(c1[2], ".")
        minor == Atoi(c2[1])
    IN  IF ~c1[3] THEN [stable |-> FALSE, wellFormed |-> FALSE]
        ELSE IF ~c2[3] THEN [stable |-> FALSE, wellFormed |-> FALSE]
        ELSE IF ~minor[2] THEN [stable |-> FALSE, wellFormed |-> FALSE]
        ELSE [stable |-> (minor[1] % 2 = 0), wellFormed |-> TRUE]

-----------------------------------------------------------------------------
(* Values *)

NoVersion == <<>>
\* version.Short() of the running build
CurrentVersion == <<"1", ".", "4", "4", ".", "0">>
StableVersion == <<"1", ".", "4", "6", ".", "2">>
UnstableVersion == <<"1", ".", "4", "5", ".", "3">>
ShortVersion == <<"1", ".", "4", "6">>
BadVersion == <<"1">>

\* values of --version tried
ArgVersions == {NoVersion, CurrentVersion, UnstableVersion, ShortVersion, BadVersion}
\* values of --track tried
ArgTracks == {"", "stable", "unstable", "beta"}

Nil == [err |-> "nil", hint |-> ""]
Running == [err |-> "none", hint |-> ""]
Error(msg) == [err |-> msg, hint |-> ""]

errUserAborted == "aborting update"
ErrHelp == "flag: help requested"
ErrBothFlags == "cannot specify both --version and --track"
ErrMalformedVersion == "malformed version"
ErrUnknownTrack == "unknown track; must be 'stable' or 'unstable'"
ErrUnsupported == "The 'update' command is not supported on this platform"
ErrMacUnsupported == "The 'update' command is not yet supported on this platform"
ErrExit == "exit status 1"

\* installMSI: for tries := 0; tries < 2; tries++
MaxTries == 2

-----------------------------------------------------------------------------
(* newUpdater *)

haveExecutable(name) == name \in env.exes

\* mutant: --version is not looked at
ResolveTrackBuildOnly ==
    IF updateArgs.track \in {"stable", "unstable"}
    THEN [track |-> updateArgs.track, err |-> "nil"]
    ELSE IF updateArgs.track = ""
    THEN [track |-> (IF env.unstableBuild THEN "unstable" ELSE "stable"),
          err |-> "nil"]
    ELSE [track |-> "", err |-> ErrUnknownTrack]

\* the track switch of newUpdater: [track, err]
ResolveTrack ==
    IF updateArgs.track \in {"stable", "unstable"}
    THEN [track |-> updateArgs.track, err |-> "nil"]
    ELSE IF updateArgs.track = ""
    THEN IF updateArgs.version # NoVersion
         THEN LET s == versionIsStable(updateArgs.version)
              IN  IF ~s.wellFormed
                  THEN [track |-> "", err |-> ErrMalformedVersion]
                  ELSE [track |-> (IF s.stable THEN "stable" ELSE "unstable"),
                        err |-> "nil"]
         ELSE [track |-> (IF env.unstableBuild THEN "unstable" ELSE "stable"),
               err |-> "nil"]
    ELSE [track |-> "", err |-> ErrUnknownTrack]

\* the distro switch on linux
DistroStrategy ==
    CASE env.distro = "synology" -> "updateSynology"
      [] env.distro = "debian" -> "updateDebLike"
      [] env.distro = "arch" -> "updateArchLike"
      [] OTHER -> "nil"

\* mutant: yum is probed before dnf
LinuxStrategyYumFirst ==
    IF haveExecutable("pacman") THEN "updateArchLike"
    ELSE IF haveExecutable("apt-get") THEN "updateDebLike"
    ELSE IF haveExecutable("yum") THEN "updateFedoraLike(yum)"
    ELSE IF haveExecutable("dnf") THEN "updateFedoraLike(dnf)"
    ELSE DistroStrategy

\* the haveExecutable switch on linux, applied on top of the distro's choice
LinuxStrategy ==
    IF haveExecutable("pacman") THEN "updateArchLike"
    ELSE IF haveExecutable("apt-get") THEN "updateDebLike"
    ELSE IF haveExecutable("dnf") THEN "updateFedoraLike(dnf)"
    ELSE IF haveExecutable("yum") THEN "updateFedoraLike(yum)"
    ELSE DistroStrategy

\* the GOOS switch of newUpdater: [update, err]
Dispatch ==
    CASE env.GOOS = "windows" -> [update |-> "updateWindows", err |-> "nil"]
      [] env.GOOS = "linux" -> [update |-> LinuxStrategy, err |-> "nil"]
      [] env.GOOS = "darwin" ->
            IF ~updateArgs.appStore /\ ~env.sandboxed
            THEN [update |-> "nil", err |-> ErrMacUnsupported]
            ELSE IF ~updateArgs.appStore /\ env.homeMacsys
            THEN [update |-> "updateMacSys", err |-> "nil"]
            ELSE [update |-> "updateMacAppStore", err |-> "nil"]
      [] OTHER -> [update |-> "nil", err |-> "nil"]

\* newUpdater(): [track, update, err]
newUpdater ==
    LET t == ResolveTrack
        d == Dispatch
    IN  IF t.err # "nil" THEN [track |-> "", update |-> "nil", err |-> t.err]
        ELSE IF d.err # "nil" THEN [track |-> "", update |-> "nil", err |-> d.err]
        ELSE IF d.update = "nil"
        THEN [track |-> "", update |-> "nil", err |-> ErrUnsupported]
        ELSE [track |-> t.track, update |-> d.update, err |-> "nil"]

-----------------------------------------------------------------------------
(* ConfigRewriter: the apt list file and the yum repo file                 *)
(*                                                                         *)
(* A file is a sequence of chunks.  The chunks below are the only byte    *)
(* runs the rewriters tell apart; no concatenation of chunks spells       *)
(* another chunk, so two files are byte-identical iff they are the same   *)
(* sequence of chunks.                                                    *)

URLstable == "https://pkgs.tailscale.com/stable/"
URLunstable == "https://pkgs.tailscale.com/unstable/"
TrackURLs == {URLstable, URLunstable}
Tracks == {"stable", "unstable"}

\* "https://pkgs.tailscale.com/" + dstTrack + "/"
trackURLPrefix(dstTrack) == IF dstTrack = "stable" THEN URLstable ELSE URLunstable

\* chunks matched by \s
Whitespace == {" ", "\r", "\n"}
\* chunks whose last byte is a word character: \b does not hold after them
WordEnd == {"deb", "stable", "unstable", "Tailscale"}

\* mutant: the carriage return is kept
dropCRKept(line) == line

\* bufio.ScanLines' dropCR: one trailing carriage return is dropped
dropCR(line) ==
    IF line # <<>> /\ line[Len(line)] = "\r"
    THEN SubSeq(line, 1, Len(line) - 1) ELSE line

\* the tokens bufio.Scanner yields for data (ScanLines)
RECURSIVE ScanLines(_)
ScanLines(data) ==
    IF data = <<>> THEN <<>>
    ELSE LET c == Cut(data, "\n")
         IN  <<dropCR(c[1])>> \o ScanLines(c[2])

\* commentLine: ^\s*\#
commentLine(line) ==
    \E k \in 1..Len(line) :
        line[k] = "#" /\ \A j \in 1..(k - 1) : line[j] \in Whitespace

\* pkgsURL matches at chunk i: \bhttps://pkgs\.tailscale\.com/((un)?stable)/
pkgsURLAt(line, i) ==
    line[i] \in TrackURLs /\ (i = 1 \/ line[i - 1] \notin WordEnd)

\* mutant: a match already on the target track is not noticed
AptLineNoCorrect(line, dstTrack) ==
    IF commentLine(line)
    THEN [out |-> line, changes |-> 0, hadCorrect |-> FALSE]
    ELSE [out |-> [i \in 1..Len(line) |->
                      IF pkgsURLAt(line, i) THEN trackURLPrefix(dstTrack)
                      ELSE line[i]],
          changes |-> Cardinality({i \in 1..Len(line) :
                          pkgsURLAt(line, i) /\ line[i] # trackURLPrefix(dstTrack)}),
          hadCorrect |-> FALSE]

\* one pass of the loop body of updateDebianAptSourcesListBytes over a line:
\* the line written to buf, the matches changed, whether a match was correct
AptLine(line, dstTrack) ==
    IF commentLine(line)
    THEN [out |-> line, changes |-> 0, hadCorrect |-> FALSE]
    ELSE [out |-> [i \in 1..Len(line) |->
                      IF pkgsURLAt(line, i) THEN trackURLPrefix(dstTrack)
                      ELSE line[i]],
          changes |-> Cardinality({i \in 1..Len(line) :
                          pkgsURLAt(line, i) /\ line[i] # trackURLPrefix(dstTrack)}),
          hadCorrect |-> \E i \in 1..Len(line) :
                          pkgsURLAt(line, i) /\ line[i] = trackURLPrefix(dstTrack)]

\* the scan loop: buf, changes and hadCorrect after all lines
RECURSIVE AptScan(_, _)
AptScan(lines, dstTrack) ==
    IF lines = <<>> THEN [buf |-> <<>>, changes |-> 0, hadCorrect |-> FALSE]
    ELSE LET l == AptLine(Head(lines), dstTrack)
             r == AptScan(Tail(lines), dstTrack)
         IN  [buf |-> l.out \o <<"\n">> \o r.buf,
              changes |-> l.changes + r.changes,
              hadCorrect |-> l.hadCorrect \/ r.hadCorrect]

\* bytes.TrimSpace
RECURSIVE TrimLeft(_)
TrimLeft(s) ==
    IF s # <<>> /\ s[1] \in Whitespace THEN TrimLeft(Tail(s)) ELSE s
RECURSIVE TrimRight(_)
TrimRight(s) ==
    IF s # <<>> /\ s[Len(s)] \in Whitespace
    THEN TrimRight(SubSeq(s, 1, Len(s) - 1)) ELSE s
TrimSpace(s) == TrimRight(TrimLeft(s))

ErrAptContents == "unexpected/unsupported /etc/apt/sources.list.d/tailscale.list contents"

\* mutant: any number of changes is accepted
updateDebianAptSourcesListBytesAnyChanges(was, dstTrack) ==
    LET s == AptScan(ScanLines(was), dstTrack)
    IN  IF s.hadCorrect THEN [newContent |-> was, err |-> "nil"]
        ELSE IF s.changes = 0 THEN [newContent |-> <<>>, err |-> ErrAptContents]
        ELSE [newContent |-> s.buf, err |-> "nil"]

\* updateDebianAptSourcesListBytes(was, dstTrack): [newContent, err]
updateDebianAptSourcesListBytes(was, dstTrack) ==
    LET s == AptScan(ScanLines(was), dstTrack)
    IN  IF s.hadCorrect
           \/ (s.changes = 1 /\ TrimSpace(was) = TrimSpace(s.buf))
        THEN [newContent |-> was, err |-> "nil"]
        ELSE IF s.changes # 1
        THEN [newContent |-> <<>>, err |-> ErrAptContents]
        ELSE [newContent |-> s.buf, err |-> "nil"]

ErrYumSection == "does not look like a tailscale repo file, it contains an unexpected section"

\* urlRe.ReplaceAllString(line, urlReplacement):
\* ^(baseurl|gpgkey)=https://pkgs\.tailscale\.com/(un)?stable/
urlReReplace(line, dstTrack) ==
    IF Len(line) >= 2 /\ line[1] \in {"baseurl=", "gpgkey="} /\ line[2] \in TrackURLs
    THEN [line EXCEPT ![2] = trackURLPrefix(dstTrack)]
    ELSE line

\* the loop body of updateYUMRepoTrack over a line: what is written, or the error
YumLine(line, dstTrack) ==
    IF line # <<>> /\ line[1] \in {"[", "[tailscale-"}
    THEN IF line[1] # "[tailscale-"
         THEN [out |-> <<>>, err |-> ErrYumSection]
         ELSE [out |-> <<"[tailscale-", dstTrack, "]", "\n">>, err |-> "nil"]
    ELSE IF line # <<>> /\ line[1] = "name="
    THEN [out |-> <<"name=", "Tailscale", " ", dstTrack, "\n">>, err |-> "nil"]
    ELSE IF line # <<>> /\ line[1] \in {"baseurl=", "gpgkey="}
    THEN [out |-> urlReReplace(line, dstTrack) \o <<"\n">>, err |-> "nil"]
    ELSE [out |-> line \o <<"\n">>, err |-> "nil"]

\* the scan loop of updateYUMRepoTrack: newContent, or the first error
RECURSIVE YumScan(_, _)
YumScan(lines, dstTrack) ==
    IF lines = <<>> THEN [newContent |-> <<>>, err |-> "nil"]
    ELSE LET l == YumLine(Head(lines), dstTrack)
         IN  IF l.err # "nil" THEN [newContent |-> <<>>, err |-> l.err]
             ELSE LET r == YumScan(Tail(lines), dstTrack)
                  IN  IF r.err # "nil" THEN r
                      ELSE [newContent |-> l.out \o r.newContent, err |-> "nil"]

ErrRead == "open: no such file or directory"
ErrWrite == "write: no space left on device"

\* os.ReadFile: the content, or an error
ReadOutcomes(file) ==
    {[was |-> file, err |-> "nil"], [was |-> <<>>, err |-> ErrRead]}

\* os.WriteFile(name, data, 0644) truncates and then writes in place: on success
\* the file holds data; on failure it is untouched (the open failed) or holds a
\* prefix of data (the write or the close failed)
WriteOutcomes(old, data) ==
    {[file |-> data, err |-> "nil"], [file |-> old, err |-> ErrWrite]}
    \cup {[file |-> SubSeq(data, 1, k), err |-> ErrWrite] : k \in 0..Len(data)}

\* updateDebianAptSourcesList(dstTrack) on `file`, with the outcomes r of the
\* read and w of the write: [file, rewrote, err, wrote]
updateDebianAptSourcesList(file, dstTrack, r, w) ==
    IF r.err # "nil"
    THEN [file |-> file, rewrote |-> FALSE, err |-> r.err, wrote |-> FALSE]
    ELSE LET b == updateDebianAptSourcesListBytes(r.was, dstTrack)
         IN  IF b.err # "nil"
             THEN [file |-> file, rewrote |-> FALSE, err |-> b.err, wrote |-> FALSE]
             ELSE IF r.was = b.newContent
             THEN [file |-> file, rewrote |-> FALSE, err |-> "nil", wrote |-> FALSE]
             ELSE [file |-> w.file, rewrote |-> TRUE, err |-> w.err, wrote |-> TRUE]

\* mutant: the file is opened for writing, and so truncated, before the scan
updateYUMRepoTrackTruncateFirst(file, dstTrack, r, w) ==
    IF r.err # "nil"
    THEN [file |-> file, rewrote |-> FALSE, err |-> r.err, wrote |-> FALSE]
    ELSE LET y == YumScan(ScanLines(r.was), dstTrack)
         IN  IF y.err # "nil"
             THEN [file |-> <<>>, rewrote |-> FALSE, err |-> y.err, wrote |-> FALSE]
             ELSE IF r.was = y.newContent
             THEN [file |-> file, rewrote |-> FALSE, err |-> "nil", wrote |-> FALSE]
             ELSE [file |-> w.file, rewrote |-> TRUE, err |-> w.err, wrote |-> TRUE]

\* updateYUMRepoTrack(repoFile, dstTrack) on `file`: [file, rewrote, err, wrote]
updateYUMRepoTrack(file, dstTrack, r, w) ==
    IF r.err # "nil"
    THEN [file |-> file, rewrote |-> FALSE, err |-> r.err, wrote |-> FALSE]
    ELSE LET y == YumScan(ScanLines(r.was), dstTrack)
         IN  IF y.err # "nil"
             THEN [file |-> file, rewrote |-> FALSE, err |-> y.err, wrote |-> FALSE]
             ELSE IF r.was = y.newContent
             THEN [file |-> file, rewrote |-> FALSE, err |-> "nil", wrote |-> FALSE]
             ELSE [file |-> w.file, rewrote |-> TRUE, err |-> w.err, wrote |-> TRUE]

\* the content the write of a rewriter call would store
AptNewContent(file, dstTrack) == updateDebianAptSourcesListBytes(file, dstTrack).newContent
YumNewContent(file, dstTrack) == YumScan(ScanLines(file), dstTrack).newContent

-----------------------------------------------------------------------------
(* VersionResolver, ConfirmationGate, elevation *)

\* what http.Get of the version metadata endpoint can answer
NoResponse == [neterr |-> FALSE, status |-> 0, decodes |-> FALSE, Version |-> NoVersion]
MetaResponses ==
    {[neterr |-> TRUE, status |-> 0, decodes |-> FALSE, Version |-> NoVersion]}
    \cup [neterr : {FALSE}, status : {200, 404}, decodes : {FALSE}, Version : {NoVersion}]
    \cup [neterr : {FALSE}, status : {200, 404}, decodes : {TRUE},
          Version : {NoVersion, CurrentVersion, StableVersion}]

ErrFetch == "fetching latest tailscale version"
ErrDecode == "decoding JSON"
ErrNoVersion == "no version found"

\* latestTailscaleVersion(track), given the answer res: [ver, err]
latestTailscaleVersion(res) ==
    IF res.neterr THEN [ver |-> NoVersion, err |-> ErrFetch]
    ELSE IF ~res.decodes THEN [ver |-> NoVersion, err |-> ErrDecode]
    ELSE IF res.Version = NoVersion THEN [ver |-> NoVersion, err |-> ErrNoVersion]
    ELSE [ver |-> res.Version, err |-> "nil"]

\* what the process observes of the answer: res.Status, or the transport error
MetaAnswer(res) ==
    IF res.neterr THEN "http:meta: error"
    ELSE IF res.status = 200 THEN "http:meta: 200 OK"
    ELSE "http:meta: 404 Not Found"

\* requestedTailscaleVersion(ver, track): [ver, err, requests]
requestedTailscaleVersion(v, res) ==
    IF v # NoVersion THEN [ver |-> v, err |-> "nil", requests |-> <<>>]
    ELSE LET l == latestTailscaleVersion(res)
         IN  [ver |-> l.ver, err |-> l.err,
              requests |-> <<"http:GET meta", MetaAnswer(res)>>]

\* the answers the metadata endpoint can give to a call with explicit version v
VersionAnswers(v) == IF v # NoVersion THEN {NoResponse} ELSE MetaResponses

\* mutant: --dry-run does not stop the run
currentOrDryRunCurrentOnly(v) == CurrentVersion = v

\* up.currentOrDryRun(ver)
currentOrDryRun(v) == (CurrentVersion = v) \/ updateArgs.dryRun

UpperCase == <<"Y", "E", "S", "U", "R", "N", "O">>
LowerCase == <<"y", "e", "s", "u", "r", "n", "o">>

\* strings.ToLower
ToLower(s) ==
    [i \in 1..Len(s) |->
        IF \E k \in 1..Len(UpperCase) : UpperCase[k] = s[i]
        THEN LowerCase[CHOOSE k \in 1..Len(UpperCase) : UpperCase[k] = s[i]]
        ELSE s[i]]

\* mutant: the whole line is stored
ScanlnWholeLine(line) == line

\* fmt.Scanln(&resp): leading spaces are skipped and the first space-delimited
\* word of the line is stored, whatever follows it
RECURSIVE SkipSpaces(_)
SkipSpaces(line) ==
    IF line # <<>> /\ line[1] = " " THEN SkipSpaces(Tail(line)) ELSE line
Scanln(line) == Cut(SkipSpaces(line), " ")[1]

\* the lines the operator may enter; <<>> is an empty line or a failed read
Answers ==
    {<<"y">>, <<"Y", "E", "S">>, <<"S", "u", "r", "e">>, <<"n">>, <<"n", "o">>, <<>>,
     <<" ", "y">>, <<"y", "e", "s", " ", "n", "o">>}

Affirmative == {<<"y">>, <<"y", "e", "s">>, <<"s", "u", "r", "e">>}

\* the answers up.confirm reads: none when --yes is given
ConfirmAnswers == IF updateArgs.yes THEN {<<>>} ELSE Answers

\* up.confirm(ver), given the line read: [err, io]
confirm(line) ==
    IF updateArgs.yes THEN [err |-> "nil", io |-> <<>>]
    ELSE IF ToLower(Scanln(line)) \in Affirmative
    THEN [err |-> "nil", io |-> <<"stdin:prompt">>]
    ELSE [err |-> errUserAborted, io |-> <<"stdin:prompt">>]

\* mutant: no elevation is required
requireRootNever == "nil"

\* requireRoot()
requireRoot ==
    IF env.euid = 0 THEN "nil"
    ELSE IF env.GOOS = "linux" THEN "must be root; use sudo"
    ELSE IF env.GOOS \in {"freebsd", "openbsd"} THEN "must be root; use doas"
    ELSE "must be root"

\* mutant: the wrapper does not look for errUserAborted
WrapAll(e, hint) ==
    IF e # "nil" THEN [err |-> e, hint |-> hint] ELSE [err |-> e, hint |-> ""]

\* the deferred wrapper of updateArchLike and updateFedoraLike
Wrap(e, hint) ==
    IF e # "nil" /\ e # errUserAborted THEN [err |-> e, hint |-> hint]
    ELSE [err |-> e, hint |-> ""]

PacmanHint == "you can try updating using pacman --sync --refresh tailscale"
FedoraHint(pm) == IF pm = "dnf" THEN "you can try updating using dnf upgrade tailscale"
                  ELSE "you can try updating using yum upgrade tailscale"

-----------------------------------------------------------------------------
(* Steps *)

\* the process returns r from runUpdate
Return(r) == ret' = r /\ pc' = "done"
Emit(events) == trace' = trace \o events
\* a subprocess either exits 0 or fails
ExecOutcomes == {"nil", ErrExit}

Files == <<msiFile, aptFile, yumFile, rw>>
Config == <<env, updateArgs, args>>
\* stdin before up.confirm has read it
Unread == <<"(unread)">>
MsiLocals == <<tries, err>>

\* the entry pc of each strategy
Entry(update) ==
    CASE update = "updateWindows" -> "win:version"
      [] update = "updateDebLike" -> "deb:version"
      [] update = "updateArchLike" -> "arch:info"
      [] update \in {"updateFedoraLike(dnf)", "updateFedoraLike(yum)"} -> "fed:version"
      [] update = "updateMacAppStore" -> "mac:defaults"
      [] update = "updateSynology" -> "synology"
      [] update = "updateMacSys" -> "macsys"

\* mutant: the check of line 85 left out
BothFlagsUnchecked == FALSE

\* line 85: both --version and --track were given
BothFlags == updateArgs.version # NoVersion /\ updateArgs.track # ""

\* mutant: the arguments and flags are checked before TS_UPDATE_WIN_MSI
RunUpdateArgsFirst ==
    /\ pc = "runUpdate"
    /\ IF args > 0
       THEN Return(Error(ErrHelp)) /\ UNCHANGED up
       ELSE IF BothFlags
       THEN Return(Error(ErrBothFlags)) /\ UNCHANGED up
       ELSE IF env.winMSIEnv # ""
       THEN /\ pc' = "msi:install"
            /\ UNCHANGED <<ret, up>>
       ELSE LET u == newUpdater
            IN  IF u.err # "nil"
                THEN Return(Error(u.err)) /\ UNCHANGED up
                ELSE /\ up' = [track |-> u.track, update |-> u.update]
                     /\ pc' = Entry(u.update)
                     /\ UNCHANGED ret
    /\ UNCHANGED <<stdin, Config, ver, trace, MsiLocals, dl, Files>>

\* runUpdate up to the call of installMSI or of up.update (lines 72-92)
RunUpdate ==
    /\ pc = "runUpdate"
    /\ IF env.winMSIEnv # ""
       THEN /\ pc' = "msi:install"
            /\ UNCHANGED <<ret, up>>
       ELSE IF args > 0
       THEN Return(Error(ErrHelp)) /\ UNCHANGED up
       ELSE IF BothFlags
       THEN Return(Error(ErrBothFlags)) /\ UNCHANGED up
       ELSE LET u == newUpdater
            IN  IF u.err # "nil"
                THEN Return(Error(u.err)) /\ UNCHANGED up
                ELSE /\ up' = [track |-> u.track, update |-> u.update]
                     /\ pc' = Entry(u.update)
                     /\ UNCHANGED ret
    /\ UNCHANGED <<stdin, Config, ver, trace, MsiLocals, dl, Files>>

\* installMSI: one msiexec /i attempt (lines 599-608), and the return to
\* runUpdate when it succeeded (lines 75-80)
MsiInstall ==
    /\ pc = "msi:install"
    /\ \E e \in ExecOutcomes :
         /\ err' = e
         /\ IF e = "nil"
            THEN /\ Emit(<<"exec:msiexec /i: exit 0", "log:success.">>)
                 /\ Return(Nil)
            ELSE /\ Emit(<<"exec:msiexec /i: exit 1">>)
                 /\ pc' = "msi:uninstall"
                 /\ UNCHANGED ret
    /\ UNCHANGED <<stdin, Config, up, ver, tries, dl, Files>>

\* installMSI: the msiexec /x after a failed attempt, the loop increment and
\* test, and the return to runUpdate when the loop ends (lines 609-622, 75-80)
MsiUninstall ==
    /\ pc = "msi:uninstall"
    /\ \E e \in ExecOutcomes :
         /\ err' = e
         /\ tries' = tries + 1
         /\ IF tries + 1 < MaxTries
            THEN /\ Emit(<<"exec:msiexec /x">>)
                 /\ pc' = "msi:install"
                 /\ UNCHANGED ret
            ELSE IF e = "nil"
            THEN /\ Emit(<<"exec:msiexec /x", "log:success.">>)
                 /\ Return(Nil)
            ELSE /\ Emit(<<"exec:msiexec /x">>)
                 /\ Return(Error(e))
    /\ UNCHANGED <<stdin, Config, up, ver, dl, Files>>

-----------------------------------------------------------------------------
(* updateDebLike *)

\* the three contents of a source file tried by the executors
AptFiles ==
    {<<"deb", " ", URLstable, " ", "deb", "\n">>,
     <<"deb", " ", URLunstable, " ", "deb", "\n">>,
     <<"deb", " ", "deb", "\n">>}
YumFiles ==
    {<<"[tailscale-", "stable", "]", "\n", "baseurl=", URLstable, "\n">>,
     <<"[tailscale-", "unstable", "]", "\n", "baseurl=", URLunstable, "\n">>,
     <<"[", "deb", "]", "\n", "baseurl=", URLstable, "\n">>}

\* lines 223-233: the version, the short-circuit, the elevation check
DebLikeVersion ==
    /\ pc = "deb:version"
    /\ \E res \in VersionAnswers(updateArgs.version) :
         LET r == requestedTailscaleVersion(updateArgs.version, res)
         IN  /\ Emit(r.requests)
             /\ ver' = r.ver
             /\ IF r.err # "nil" THEN Return(Error(r.err))
                ELSE IF currentOrDryRun(r.ver) THEN Return(Nil)
                ELSE IF requireRoot # "nil" THEN Return(Error(requireRoot))
                ELSE pc' = "deb:sources" /\ UNCHANGED ret
    /\ UNCHANGED <<stdin, Config, up, MsiLocals, dl, Files>>

\* lines 235-239: updateDebianAptSourcesList(up.track)
DebLikeSources ==
    /\ pc = "deb:sources"
    /\ \E r \in ReadOutcomes(aptFile) :
       \E w \in WriteOutcomes(aptFile, AptNewContent(aptFile, up.track)) :
         LET u == updateDebianAptSourcesList(aptFile, up.track, r, w)
         IN  /\ aptFile' = u.file
             /\ rw' = [was |-> aptFile, dstTrack |-> up.track,
                       rewrote |-> u.rewrote, err |-> u.err]
             /\ Emit(IF u.wrote THEN <<"fs:ReadFile apt", "fs:WriteFile apt">>
                     ELSE <<"fs:ReadFile apt">>)
             /\ IF u.err # "nil" THEN Return(Error(u.err))
                ELSE pc' = "deb:update" /\ UNCHANGED ret
    /\ UNCHANGED <<stdin, Config, up, ver, MsiLocals, dl, msiFile, yumFile>>

\* lines 241-255: apt-get update
DebLikeAptUpdate ==
    /\ pc = "deb:update"
    /\ Emit(<<"exec:apt-get update">>)
    /\ \E e \in ExecOutcomes :
         IF e # "nil" THEN Return(Error(e))
         ELSE pc' = "deb:install" /\ UNCHANGED ret
    /\ UNCHANGED <<stdin, Config, up, ver, MsiLocals, dl, Files>>

\* lines 257-264: apt-get install
DebLikeAptInstall ==
    /\ pc = "deb:install"
    /\ Emit(<<"exec:apt-get install">>)
    /\ \E e \in ExecOutcomes :
         IF e # "nil" THEN Return(Error(e)) ELSE Return(Nil)
    /\ UNCHANGED <<stdin, Config, up, ver, MsiLocals, dl, Files>>

-----------------------------------------------------------------------------
(* updateArchLike *)

ErrPacmanCheck == "failed checking pacman for latest tailscale version"
ErrPacmanMalformed == "version output from pacman is malformed"
ErrPacmanNotFound == "could not find latest version of tailscale via pacman"
ErrPacmanUpdate == "failed tailscale update using pacman"

\* outputs of pacman --sync --refresh --info tailscale, as lines of chunks
PacmanOutputs ==
    {<<<<"Name", " ", ":", " ", "tailscale">>,
       <<"Version", " ", ":", " ">> \o StableVersion \o <<"-", "1">>>>,
     <<<<"Version", " ", ":", " ">> \o CurrentVersion \o <<"-", "1">>>>,
     <<<<"Version", " ", "1">>>>,
     <<<<"Version", " ", ":", " ", "-", "1">>>>,
     <<<<"Name", " ", ":", " ", "tailscale">>>>}

\* parsePacmanVersion(out): [ver, err]
RECURSIVE parsePacmanVersion(_)
parsePacmanVersion(lines) ==
    IF lines = <<>> THEN [ver |-> NoVersion, err |-> ErrPacmanNotFound]
    ELSE LET line == Head(lines)
             parts == Cut(line, ":")
             v == Cut(TrimSpace(parts[2]), "-")[1]
         IN  IF line = <<>> \/ line[1] # "Version"
             THEN parsePacmanVersion(Tail(lines))
             ELSE IF ~parts[3] THEN [ver |-> NoVersion, err |-> ErrPacmanMalformed]
             ELSE IF v = <<>> THEN [ver |-> NoVersion, err |-> ErrPacmanMalformed]
             ELSE [ver |-> v, err |-> "nil"]

\* lines 325-345: the elevation check, pacman --info, the short-circuit
ArchLikeInfo ==
    /\ pc = "arch:info"
    /\ IF requireRoot # "nil"
       THEN Return(Error(requireRoot)) /\ UNCHANGED <<trace, ver>>
       ELSE /\ Emit(<<"exec:pacman --sync --refresh --info">>)
            /\ \/ Return(Wrap(ErrPacmanCheck, PacmanHint)) /\ UNCHANGED ver
               \/ \E out \in PacmanOutputs :
                    LET r == parsePacmanVersion(out)
                    IN  /\ ver' = r.ver
                        /\ IF r.err # "nil" THEN Return(Wrap(r.err, PacmanHint))
                           ELSE IF currentOrDryRun(r.ver) THEN Return(Nil)
                           ELSE pc' = "arch:confirm" /\ UNCHANGED ret
    /\ UNCHANGED <<stdin, Config, up, MsiLocals, dl, Files>>

\* lines 346-348: up.confirm(ver)
ArchLikeConfirm ==
    /\ pc = "arch:confirm"
    /\ \E line \in ConfirmAnswers :
         LET c == confirm(line)
         IN  /\ Emit(c.io)
             /\ stdin' = (IF updateArgs.yes THEN stdin ELSE line)
             /\ IF c.err # "nil" THEN Return(Wrap(c.err, PacmanHint))
                ELSE pc' = "arch:install" /\ UNCHANGED ret
    /\ UNCHANGED <<Config, up, ver, MsiLocals, dl, Files>>

\* lines 350-356: pacman --sync --noconfirm tailscale
ArchLikeInstall ==
    /\ pc = "arch:install"
    /\ Emit(<<"exec:pacman --sync --noconfirm">>)
    /\ \E e \in ExecOutcomes :
         IF e # "nil" THEN Return(Wrap(ErrPacmanUpdate, PacmanHint)) ELSE Return(Nil)
    /\ UNCHANGED <<stdin, Config, up, ver, MsiLocals, dl, Files>>

-----------------------------------------------------------------------------
(* updateFedoraLike(packageManager) *)

packageManager == IF up.update = "updateFedoraLike(dnf)" THEN "dnf" ELSE "yum"

\* mutant: the version and the short-circuit come before the elevation check
FedoraLikeVersionShortCircuitFirst ==
    /\ pc = "fed:version"
    /\ \E res \in VersionAnswers(updateArgs.version) :
         LET r == requestedTailscaleVersion(updateArgs.version, res)
         IN  /\ Emit(r.requests)
             /\ ver' = r.ver
             /\ IF r.err # "nil" THEN Return(Wrap(r.err, FedoraHint(packageManager)))
                ELSE IF currentOrDryRun(r.ver) THEN Return(Nil)
                ELSE IF requireRoot # "nil" THEN Return(Error(requireRoot))
                ELSE pc' = "fed:confirm" /\ UNCHANGED ret
    /\ UNCHANGED <<stdin, Config, up, MsiLocals, dl, Files>>

\* lines 388-403: the elevation check, the version, the short-circuit
FedoraLikeVersion ==
    /\ pc = "fed:version"
    /\ IF requireRoot # "nil"
       THEN Return(Error(requireRoot)) /\ UNCHANGED <<trace, ver>>
       ELSE \E res \in VersionAnswers(updateArgs.version) :
              LET r == requestedTailscaleVersion(updateArgs.version, res)
              IN  /\ Emit(r.requests)
                  /\ ver' = r.ver
                  /\ IF r.err # "nil" THEN Return(Wrap(r.err, FedoraHint(packageManager)))
                     ELSE IF currentOrDryRun(r.ver) THEN Return(Nil)
                     ELSE pc' = "fed:confirm" /\ UNCHANGED ret
    /\ UNCHANGED <<stdin, Config, up, MsiLocals, dl, Files>>

\* lines 404-406: up.confirm(ver)
FedoraLikeConfirm ==
    /\ pc = "fed:confirm"
    /\ \E line \in ConfirmAnswers :
         LET c == confirm(line)
         IN  /\ Emit(c.io)
             /\ stdin' = (IF updateArgs.yes THEN stdin ELSE line)
             /\ IF c.err # "nil" THEN Return(Wrap(c.err, FedoraHint(packageManager)))
                ELSE pc' = "fed:repo" /\ UNCHANGED ret
    /\ UNCHANGED <<Config, up, ver, MsiLocals, dl, Files>>

\* lines 408-412: updateYUMRepoTrack(yumRepoConfigFile, up.track)
FedoraLikeRepo ==
    /\ pc = "fed:repo"
    /\ \E r \in ReadOutcomes(yumFile) :
       \E w \in WriteOutcomes(yumFile, YumNewContent(yumFile, up.track)) :
         LET u == updateYUMRepoTrack(yumFile, up.track, r, w)
         IN  /\ yumFile' = u.file
             /\ rw' = [was |-> yumFile, dstTrack |-> up.track,
                       rewrote |-> u.rewrote, err |-> u.err]
             /\ Emit(IF u.wrote THEN <<"fs:ReadFile yum", "fs:WriteFile yum">>
                     ELSE <<"fs:ReadFile yum">>)
             /\ IF u.err # "nil" THEN Return(Wrap(u.err, FedoraHint(packageManager)))
                ELSE pc' = "fed:install" /\ UNCHANGED ret
    /\ UNCHANGED <<stdin, Config, up, ver, MsiLocals, dl, msiFile, aptFile>>

\* lines 414-420: <packageManager> install --assumeyes tailscale-<ver>-1
FedoraLikeInstall ==
    /\ pc = "fed:install"
    /\ Emit(<<"exec:" \o packageManager \o " install">>)
    /\ \E e \in ExecOutcomes :
         IF e # "nil" THEN Return(Wrap(e, FedoraHint(packageManager))) ELSE Return(Nil)
    /\ UNCHANGED <<stdin, Config, up, ver, MsiLocals, dl, Files>>

-----------------------------------------------------------------------------
(* updateMacAppStore, updateSynology, updateMacSys *)

ErrDefaults == "can't check App Store auto-update setting"
ErrList == "can't check App Store for available updates"
ErrAppStoreInstall == "can't install App Store update for Tailscale"
ErrSynology == "The 'update' command is not yet implemented on Synology."
ErrMacSys == "The 'update' command is not yet implemented on macOS."

DigitsOrDot == Digits \cup {"."}

\* outputs of softwareupdate --list, as lines of chunks
SoftwareupdateOutputs ==
    {<<<<"No", " ", "new", " ", "software">>>>,
     <<<<" ", "*", " ", "Label:", " ", "Tailscale-">> \o StableVersion>>,
     <<<<" ", "*", " ", "Label:", " ", "Tailscale-">> \o CurrentVersion>>,
     <<<<"*", " ", "Label:", " ", "Tailscale-">> \o StableVersion>>}

\* the longest prefix of s made of digits and dots
RECURSIVE DigitRun(_)
DigitRun(s) ==
    IF s # <<>> /\ s[1] \in DigitsOrDot THEN <<s[1]>> \o DigitRun(Tail(s)) ELSE <<>>

\* macOSAppStoreListPattern on one line:
\* ^\s+\*\s+Label:\s*(Tailscale-\d[\d\.]+); the version of the label, or <<>>
LabelVersion(line) ==
    LET a == SkipSpaces(line)
        b == IF a # <<>> THEN SkipSpaces(Tail(a)) ELSE <<>>
        c == IF b # <<>> THEN SkipSpaces(Tail(b)) ELSE <<>>
        run == IF c # <<>> THEN DigitRun(Tail(c)) ELSE <<>>
    IN  IF /\ a # line /\ a # <<>> /\ a[1] = "*"
           /\ b # Tail(a) /\ b # <<>> /\ b[1] = "Label:"
           /\ c # <<>> /\ c[1] = "Tailscale-"
           /\ Len(run) >= 2 /\ run[1] \in Digits
        THEN run ELSE <<>>

\* parseSoftwareupdateList(stdout) with the "Tailscale-" prefix trimmed
RECURSIVE parseSoftwareupdateList(_)
parseSoftwareupdateList(lines) ==
    IF lines = <<>> THEN <<>>
    ELSE IF LabelVersion(Head(lines)) # <<>> THEN LabelVersion(Head(lines))
    ELSE parseSoftwareupdateList(Tail(lines))

\* lines 475-482: defaults read ... AutoUpdate
MacAppStoreDefaults ==
    /\ pc = "mac:defaults"
    /\ Emit(<<"exec:defaults read">>)
    /\ \E e \in ExecOutcomes :
         IF e # "nil" THEN Return(Error(ErrDefaults))
         ELSE pc' = "mac:list" /\ UNCHANGED ret
    /\ UNCHANGED <<stdin, Config, up, ver, MsiLocals, dl, Files>>

\* lines 484-498: softwareupdate --list, the label, the short-circuit
MacAppStoreList ==
    /\ pc = "mac:list"
    /\ Emit(<<"exec:softwareupdate --list">>)
    /\ \/ Return(Error(ErrList)) /\ UNCHANGED ver
       \/ \E out \in SoftwareupdateOutputs :
            LET v == parseSoftwareupdateList(out)
            IN  /\ ver' = v
                /\ IF v = <<>> THEN Return(Nil)
                   ELSE IF currentOrDryRun(v) THEN Return(Nil)
                   ELSE pc' = "mac:confirm" /\ UNCHANGED ret
    /\ UNCHANGED <<stdin, Config, up, MsiLocals, dl, Files>>

\* lines 499-501: up.confirm(newTailscaleVer)
MacAppStoreConfirm ==
    /\ pc = "mac:confirm"
    /\ \E line \in ConfirmAnswers :
         LET c == confirm(line)
         IN  /\ Emit(c.io)
             /\ stdin' = (IF updateArgs.yes THEN stdin ELSE line)
             /\ IF c.err # "nil" THEN Return(Error(c.err))
                ELSE pc' = "mac:install" /\ UNCHANGED ret
    /\ UNCHANGED <<Config, up, ver, MsiLocals, dl, Files>>

\* lines 503-509: sudo softwareupdate --install
MacAppStoreInstall ==
    /\ pc = "mac:install"
    /\ Emit(<<"exec:softwareupdate --install">>)
    /\ \E e \in ExecOutcomes :
         IF e # "nil" THEN Return(Error(ErrAppStoreInstall)) ELSE Return(Nil)
    /\ UNCHANGED <<stdin, Config, up, ver, MsiLocals, dl, Files>>

\* updateSynology (lines 214-220)
Synology ==
    /\ pc = "synology"
    /\ Return(Error(ErrSynology))
    /\ UNCHANGED <<stdin, Config, up, ver, trace, MsiLocals, dl, Files>>

\* updateMacSys (lines 465-472)
MacSys ==
    /\ pc = "macsys"
    /\ Return(Error(ErrMacSys))
    /\ UNCHANGED <<stdin, Config, up, ver, trace, MsiLocals, dl, Files>>

-----------------------------------------------------------------------------
(* downloadURLToFile *)

\* length of the longest artifact body tried
MaxBody == 2
Bytes == {0, 1}
RECURSIVE SeqsUpTo(_, _)
SeqsUpTo(S, n) ==
    IF n = 0 THEN {<<>>}
    ELSE LET shorter == SeqsUpTo(S, n - 1)
         IN  shorter \cup {Append(q, x) : q \in {t \in shorter : Len(t) = n - 1}, x \in S}
Bodies == SeqsUpTo(Bytes, MaxBody)

\* sha256.Sum over the bytes written to the hash: a digest that is injective
\* on Bodies stands for SHA-256; like SHA-256's, its length is fixed
Sha256(data) ==
    <<16 * Len(data)
      + (IF Len(data) >= 1 THEN data[1] ELSE 0)
      + (IF Len(data) >= 2 THEN 2 * data[2] ELSE 0)
      + (IF Len(data) >= 3 THEN 4 * data[3] ELSE 0)>>

HexDigits == Digits \cup {"a", "b", "c", "d", "e", "f", "A", "B", "C", "D", "E", "F"}
HexVal(c) ==
    IF c \in Digits THEN DigitVal(c)
    ELSE CASE c \in {"a", "A"} -> 10 [] c \in {"b", "B"} -> 11
           [] c \in {"c", "C"} -> 12 [] c \in {"d", "D"} -> 13
           [] c \in {"e", "E"} -> 14 [] c \in {"f", "F"} -> 15

\* hex.DecodeString(s): [bytes, ok]
DecodeString(s) ==
    IF Len(s) % 2 = 0 /\ \A i \in 1..Len(s) : s[i] \in HexDigits
    THEN [bytes |-> [i \in 1..(Len(s) \div 2) |->
                        16 * HexVal(s[2 * i - 1]) + HexVal(s[2 * i])],
          ok |-> TRUE]
    ELSE [bytes |-> <<>>, ok |-> FALSE]

\* bodies of the answer to GET <url>.sha256
HashTexts ==
    {<<>>, <<"1", "1">>, <<"2", "1", "\n">>, <<"3", "1">>, <<"1">>, <<"4", "0", "4", " ", "n">>}

ErrNet == "net/http: request failed"
ErrHeadStatus == "HEAD: status"
ErrHeadLength == "HEAD: unexpected Content-Length"
ErrHashStatus == "GET .sha256: status"
ErrHashRead == "GET .sha256: read error"
ErrHex == "encoding/hex: invalid"
ErrGetStatus == "GET: status"
ErrCreate == "open: permission denied"
ErrCopy == "unexpected EOF"
ErrShort == "downloaded n; want ContentLength"
ErrClose == "close: input/output error"
ErrHash == "SHA-256 of downloaded MSI didn't match expected value"
ErrAdmin == "must be run as Administrator"
ErrStat == "expected tsDir to exist, got stat error"
ErrNotDir == "expected tsDir to be a directory"
ErrMkdir == "mkdir: permission denied"
ErrAuthenticode == "authenticode verification failed"
ErrSelfCopy == "makeSelfCopy failed"
ErrStart == "exec: start failed"

NoDownload ==
    [headStatus |-> 0, ContentLength |-> 0, hashStatus |-> 0, hashHex |-> <<>>,
     wantHash |-> <<>>, dlStatus |-> 0, n |-> 0, sum |-> <<>>, ret |-> "none"]

\* mutant: the error of downloadURLToFile is dropped
DlReturnIgnored(e) == pc' = "win:authenticode" /\ UNCHANGED ret

\* downloadURLToFile returns e to updateWindows (lines 565-567)
DlReturn(e) ==
    IF e # "nil" THEN Return(Error(e))
    ELSE pc' = "win:authenticode" /\ UNCHANGED ret

\* lines 672-684: the HEAD probe
DlHead ==
    /\ pc = "dl:head"
    /\ Emit(<<"http:HEAD msi">>)
    /\ \/ DlReturn(ErrNet) /\ dl' = [dl EXCEPT !.ret = ErrNet]
       \/ \E status \in {200, 404}, length \in -1..MaxBody :
            LET e == IF status # 200 THEN ErrHeadStatus
                     ELSE IF length <= 0 THEN ErrHeadLength ELSE "nil"
            IN  /\ dl' = [dl EXCEPT !.headStatus = status, !.ContentLength = length,
                                    !.ret = IF e # "nil" THEN e ELSE "none"]
                /\ IF e # "nil" THEN DlReturn(e)
                   ELSE pc' = "dl:hash" /\ UNCHANGED ret
    /\ UNCHANGED <<stdin, Config, up, ver, MsiLocals, Files>>

\* the status the check on line 693 reads
HashStatusChecked(status) == dl.headStatus

\* lines 686-703: the companion checksum
DlHash ==
    /\ pc = "dl:hash"
    /\ Emit(<<"http:GET sha256">>)
    /\ \/ DlReturn(ErrNet) /\ dl' = [dl EXCEPT !.ret = ErrNet]
       \/ \E status \in {200, 404}, text \in HashTexts, readErr \in BOOLEAN :
            LET want == DecodeString(TrimSpace(text))
                e == IF HashStatusChecked(status) # 200 THEN ErrHashStatus
                     ELSE IF readErr THEN ErrHashRead
                     ELSE IF ~want.ok THEN ErrHex ELSE "nil"
            IN  /\ dl' = [dl EXCEPT !.hashStatus = status, !.hashHex = text,
                                    !.wantHash = want.bytes,
                                    !.ret = IF e # "nil" THEN e ELSE "none"]
                /\ IF e # "nil" THEN DlReturn(e)
                   ELSE pc' = "dl:get" /\ UNCHANGED ret
    /\ UNCHANGED <<stdin, Config, up, ver, MsiLocals, Files>>

\* lines 705-713: the request for the artifact
DlGet ==
    /\ pc = "dl:get"
    /\ Emit(<<"http:GET msi">>)
    /\ \/ DlReturn(ErrNet) /\ dl' = [dl EXCEPT !.ret = ErrNet]
       \/ \E status \in {200, 404} :
            /\ dl' = [dl EXCEPT !.dlStatus = status,
                                !.ret = IF status # 200 THEN ErrGetStatus ELSE "none"]
            /\ IF status # 200 THEN DlReturn(ErrGetStatus)
               ELSE pc' = "dl:copy" /\ UNCHANGED ret
    /\ UNCHANGED <<stdin, Config, up, ver, MsiLocals, Files>>

\* mutant: the body is copied whole
LimitReaderUnlimited(body, length) == body

\* io.LimitReader(dlRes.Body, res.ContentLength): at most ContentLength bytes
LimitReader(body, length) ==
    IF Len(body) > length THEN SubSeq(body, 1, length) ELSE body

\* mutant: only an overlong copy is refused
ShortReadOnlyLonger(n, length) == n > length

\* the check of the bytes copied against the declared length (line 730)
ShortRead(n, length) == n # length

\* the comparison of the digests (line 738)
HashMatches(sum, wantHash) == sum = wantHash

\* lines 715-744: os.Create, the copy through hash and file, the checks
DlCopy ==
    /\ pc = "dl:copy"
    /\ \/ /\ Emit(<<"fs:Create msi">>)
          /\ DlReturn(ErrCreate)
          /\ dl' = [dl EXCEPT !.ret = ErrCreate]
          /\ UNCHANGED msiFile
       \/ \E body \in Bodies, copyErr \in BOOLEAN, closeErr \in BOOLEAN :
            LET written == LimitReader(body, dl.ContentLength)
                sum == Sha256(written)
                e == IF copyErr THEN ErrCopy
                     ELSE IF ShortRead(Len(written), dl.ContentLength) THEN ErrShort
                     ELSE IF closeErr THEN ErrClose
                     ELSE IF ~HashMatches(sum, dl.wantHash) THEN ErrHash
                     ELSE "nil"
            IN  /\ Emit(<<"fs:Create msi">>)
                /\ msiFile' = [exists |-> TRUE, data |-> written]
                /\ dl' = [dl EXCEPT !.n = Len(written), !.sum = sum, !.ret = e]
                /\ DlReturn(e)
    /\ UNCHANGED <<stdin, Config, up, ver, MsiLocals, aptFile, yumFile, rw>>

-----------------------------------------------------------------------------
(* updateWindows *)

\* lines 533-548: the version, the short-circuit, the elevation check
WindowsVersion ==
    /\ pc = "win:version"
    /\ \E res \in VersionAnswers(updateArgs.version) :
         LET r == requestedTailscaleVersion(updateArgs.version, res)
         IN  /\ Emit(r.requests)
             /\ ver' = r.ver
             /\ IF r.err # "nil" THEN Return(Error(r.err))
                ELSE IF currentOrDryRun(r.ver) THEN Return(Nil)
                ELSE IF ~env.elevated THEN Return(Error(ErrAdmin))
                ELSE pc' = "win:dirs" /\ UNCHANGED ret
    /\ UNCHANGED <<stdin, Config, up, MsiLocals, dl, Files>>

\* lines 550-559: os.Stat(tsDir), os.MkdirAll(msiDir), which creates msiDir
\* when it is missing and does nothing when it is there
WindowsDirs ==
    /\ pc = "win:dirs"
    /\ \/ \E e \in {ErrStat, ErrNotDir} :
            Emit(<<"fs:Stat tsDir">>) /\ Return(Error(e))
       \/ \E e \in {"nil", ErrMkdir, "created"} :
            /\ Emit(<<"fs:Stat tsDir",
                      IF e = "created" THEN "fs:MkdirAll msiDir: created"
                      ELSE "fs:MkdirAll msiDir">>)
            /\ IF e = ErrMkdir THEN Return(Error(e))
               ELSE pc' = "win:confirm" /\ UNCHANGED ret
    /\ UNCHANGED <<stdin, Config, up, ver, MsiLocals, dl, Files>>

\* lines 561-564: up.confirm(ver)
WindowsConfirm ==
    /\ pc = "win:confirm"
    /\ \E line \in ConfirmAnswers :
         LET c == confirm(line)
         IN  /\ Emit(c.io)
             /\ stdin' = (IF updateArgs.yes THEN stdin ELSE line)
             /\ IF c.err # "nil" THEN Return(Error(c.err))
                ELSE pc' = "dl:head" /\ UNCHANGED ret
    /\ UNCHANGED <<Config, up, ver, MsiLocals, dl, Files>>

\* lines 569-573: verifyAuthenticode(msiTarget)
WindowsAuthenticode ==
    /\ pc = "win:authenticode"
    /\ \E e \in {"nil", ErrAuthenticode} :
         IF e # "nil"
         THEN Emit(<<"verifyAuthenticode: failed">>) /\ Return(Error(e))
         ELSE /\ Emit(<<"verifyAuthenticode: ok">>)
              /\ pc' = "win:selfcopy"
              /\ UNCHANGED ret
    /\ UNCHANGED <<stdin, Config, up, ver, MsiLocals, dl, Files>>

\* lines 575-581: makeSelfCopy()
WindowsSelfCopy ==
    /\ pc = "win:selfcopy"
    /\ Emit(<<"fs:makeSelfCopy">>)
    /\ \E e \in {"nil", ErrSelfCopy} :
         IF e # "nil" THEN Return(Error(e))
         ELSE pc' = "win:start" /\ UNCHANGED ret
    /\ UNCHANGED <<stdin, Config, up, ver, MsiLocals, dl, Files>>

\* lines 583-594: cmd.Start() of the copy with TS_UPDATE_WIN_MSI set, then
\* os.Exit(0); when Start fails the deferred os.Remove(selfCopy) runs
WindowsStart ==
    /\ pc = "win:start"
    /\ \/ /\ Emit(<<"fs:Remove selfCopy">>)
          /\ Return(Error(ErrStart))
       \/ /\ Emit(<<"exec:selfCopy update", "os.Exit(0)">>)
          /\ pc' = "exited"
          /\ UNCHANGED ret
    /\ UNCHANGED <<stdin, Config, up, ver, MsiLocals, dl, Files>>

-----------------------------------------------------------------------------
(* The update command *)

\* sets of executables on the search path tried
ExeSets ==
    {{}, {"pacman"}, {"apt-get"}, {"dnf"}, {"yum"}, {"dnf", "yum"},
     {"apt-get", "dnf", "yum"}, {"pacman", "apt-get", "dnf", "yum"}}
Distros == {"synology", "debian", "arch", ""}

Platform(goos, distro, exes, euid, elevated, msi, sandboxed, homeMacsys, unstable) ==
    [GOOS |-> goos, distro |-> distro, exes |-> exes, euid |-> euid,
     elevated |-> elevated, winMSIEnv |-> msi, sandboxed |-> sandboxed,
     homeMacsys |-> homeMacsys, unstableBuild |-> unstable]

\* the environments tried; what an operating system never reads is held fixed
Environments ==
    {Platform("windows", "", {}, 1000, el, msi, FALSE, FALSE, u) :
        el \in BOOLEAN, msi \in {"", "C:\\MSICache\\tailscale-setup.msi"}, u \in BOOLEAN}
    \cup {Platform("linux", d, x, euid, FALSE, "", FALSE, FALSE, u) :
        d \in Distros, x \in ExeSets, euid \in {0, 1000}, u \in BOOLEAN}
    \cup {Platform("darwin", "", {}, 1000, FALSE, "", sb, hm, u) :
        sb \in BOOLEAN, hm \in BOOLEAN, u \in BOOLEAN}
    \cup {Platform("freebsd", "", {}, 0, FALSE, "", FALSE, FALSE, u) : u \in BOOLEAN}
    \cup {Platform("linux", "debian", {"apt-get"}, 0, FALSE,
                    "C:\\MSICache\\tailscale-setup.msi", FALSE, FALSE, FALSE)}

Flags ==
    [yes : BOOLEAN, dryRun : BOOLEAN, appStore : {FALSE}, track : ArgTracks,
     version : ArgVersions]

\* lines 50-53: --track and --version are not registered on Arch
FlagsRegistered(f) ==
    env.GOOS = "linux" /\ env.distro = "arch" => f.track = "" /\ f.version = NoVersion

NoFile == [exists |-> FALSE, data |-> <<>>]
NoRewrite == [was |-> <<>>, dstTrack |-> "", rewrote |-> FALSE, err |-> "none"]

Init ==
    /\ env \in Environments
    /\ \E f \in Flags, a \in BOOLEAN :
         /\ FlagsRegistered(f)
         /\ updateArgs = [f EXCEPT !.appStore = a /\ env.GOOS = "darwin"]
    /\ args \in {0, 1}
    /\ pc = "runUpdate"
    /\ up = [track |-> "", update |-> "nil"]
    /\ ver = NoVersion
    /\ ret = Running
    /\ trace = <<>>
    /\ tries = 0
    /\ err = "nil"
    /\ dl = NoDownload
    /\ msiFile = NoFile
    /\ aptFile \in (IF env.GOOS = "linux" /\ LinuxStrategy = "updateDebLike"
                    THEN AptFiles ELSE {<<>>})
    /\ yumFile \in (IF env.GOOS = "linux"
                       /\ LinuxStrategy \in {"updateFedoraLike(dnf)", "updateFedoraLike(yum)"}
                    THEN YumFiles ELSE {<<>>})
    /\ rw = NoRewrite
    /\ stdin = Unread

Next ==
    \/ RunUpdate
    \/ MsiInstall \/ MsiUninstall
    \/ DebLikeVersion \/ DebLikeSources \/ DebLikeAptUpdate \/ DebLikeAptInstall
    \/ ArchLikeInfo \/ ArchLikeConfirm \/ ArchLikeInstall
    \/ FedoraLikeVersion \/ FedoraLikeConfirm \/ FedoraLikeRepo \/ FedoraLikeInstall
    \/ MacAppStoreDefaults \/ MacAppStoreList \/ MacAppStoreConfirm \/ MacAppStoreInstall
    \/ Synology \/ MacSys
    \/ WindowsVersion \/ WindowsDirs \/ WindowsConfirm
    \/ DlHead \/ DlHash \/ DlGet \/ DlCopy
    \/ WindowsAuthenticode \/ WindowsSelfCopy \/ WindowsStart

Spec == Init /\ [][Next]_vars

-----------------------------------------------------------------------------
(* The two rewriters on their own, over every file up to MaxFile chunks:  *)
(* the process calls one of them again and again with the same track.     *)

\* length in chunks of the longest source file tried
MaxFile == 3

AptChunks == {"deb", " ", "#", URLstable, URLunstable, "\r", "\n"}
YumChunks == {"[tailscale-", "[", "name=", "baseurl=", URLstable, URLunstable,
              "deb", "\r", "\n"}

InitRewrite ==
    /\ env = Platform("linux", "", {}, 0, FALSE, "", FALSE, FALSE, FALSE)
    /\ updateArgs = [yes |-> TRUE, dryRun |-> FALSE, appStore |-> FALSE,
                     track |-> "", version |-> NoVersion]
    /\ args = 0
    /\ \E t \in Tracks :
         \/ /\ pc = "rw:apt"
            /\ up = [track |-> t, update |-> "updateDebLike"]
            /\ aptFile \in SeqsUpTo(AptChunks, MaxFile)
            /\ yumFile = <<>>
         \/ /\ pc = "rw:yum"
            /\ up = [track |-> t, update |-> "updateFedoraLike(yum)"]
            /\ yumFile \in SeqsUpTo(YumChunks, MaxFile)
            /\ aptFile = <<>>
    /\ ver = NoVersion
    /\ ret = Running
    /\ trace = <<>>
    /\ tries = 0
    /\ err = "nil"
    /\ dl = NoDownload
    /\ msiFile = NoFile
    /\ rw = NoRewrite
    /\ stdin = Unread

\* one call of updateDebianAptSourcesList(up.track) (lines 274-287)
AptRewrite ==
    /\ pc = "rw:apt"
    /\ \E r \in ReadOutcomes(aptFile) :
       \E w \in WriteOutcomes(aptFile, AptNewContent(aptFile, up.track)) :
         LET u == updateDebianAptSourcesList(aptFile, up.track, r, w)
         IN  /\ aptFile' = u.file
             /\ rw' = [was |-> aptFile, dstTrack |-> up.track,
                       rewrote |-> u.rewrote, err |-> u.err]
    /\ UNCHANGED <<stdin, Config, pc, up, ver, ret, trace, MsiLocals, dl, msiFile, yumFile>>

\* one call of updateYUMRepoTrack(yumRepoConfigFile, up.track) (lines 426-463)
YumRewrite ==
    /\ pc = "rw:yum"
    /\ \E r \in ReadOutcomes(yumFile) :
       \E w \in WriteOutcomes(yumFile, YumNewContent(yumFile, up.track)) :
         LET u == updateYUMRepoTrack(yumFile, up.track, r, w)
         IN  /\ yumFile' = u.file
             /\ rw' = [was |-> yumFile, dstTrack |-> up.track,
                       rewrote |-> u.rewrote, err |-> u.err]
    /\ UNCHANGED <<stdin, Config, pc, up, ver, ret, trace, MsiLocals, dl, msiFile, aptFile>>

NextRewrite == AptRewrite \/ YumRewrite

SpecRewrite == InitRewrite /\ [][NextRewrite]_vars

-----------------------------------------------------------------------------
(* updateYUMRepoTrack on repo files made of whole lines: a section header, *)
(* a name= line and up to MaxRepoLines further settings.                   *)

\* number of settings after the name= line in the longest repo file tried
MaxRepoLines == 2

RepoHeaders == {<<"[tailscale-", t, "]">> : t \in Tracks} \cup {<<"[", "epel", "]">>}
RepoNames == {<<"name=", "Tailscale", " ", t>> : t \in Tracks}
\* baseurl= and gpgkey= lines, with and without a blank before the URL
RepoSettings ==
    {<<k, u>> : k \in {"baseurl=", "gpgkey="}, u \in TrackURLs}
    \cup {<<"baseurl=", " ", u>> : u \in TrackURLs}
    \cup {<<"enabled=1">>}

\* the file made of the given lines, each ended by a newline
RECURSIVE JoinLines(_)
JoinLines(lines) ==
    IF lines = <<>> THEN <<>>
    ELSE Head(lines) \o <<"\n">> \o JoinLines(Tail(lines))

RepoFiles ==
    {JoinLines(<<h, n>> \o body) :
        h \in RepoHeaders, n \in RepoNames, body \in SeqsUpTo(RepoSettings, MaxRepoLines)}

InitRepo ==
    /\ env = Platform("linux", "", {}, 0, FALSE, "", FALSE, FALSE, FALSE)
    /\ updateArgs = [yes |-> TRUE, dryRun |-> FALSE, appStore |-> FALSE,
                     track |-> "", version |-> NoVersion]
    /\ args = 0
    /\ pc = "rw:yum"
    /\ \E t \in Tracks : up = [track |-> t, update |-> "updateFedoraLike(yum)"]
    /\ yumFile \in RepoFiles
    /\ aptFile = <<>>
    /\ ver = NoVersion
    /\ ret = Running
    /\ trace = <<>>
    /\ tries = 0
    /\ err = "nil"
    /\ dl = NoDownload
    /\ msiFile = NoFile
    /\ rw = NoRewrite
    /\ stdin = Unread

NextRepo == YumRewrite

SpecRepo == InitRepo /\ [][NextRepo]_vars

-----------------------------------------------------------------------------
(* versionIsStable on every --version of up to MaxVersionLen characters:   *)
(* runUpdate on a Debian host, with no --track, up to the choice of track. *)

\* length of the longest --version tried
MaxVersionLen == 5

VersionChars == {"1", "4", "5", ".", "x", "-"}

InitVersion ==
    /\ env \in {Platform("linux", "debian", {}, 0, FALSE, "", FALSE, FALSE, u) :
                   u \in BOOLEAN}
    /\ \E v \in SeqsUpTo(VersionChars, MaxVersionLen) :
         updateArgs = [yes |-> TRUE, dryRun |-> FALSE, appStore |-> FALSE,
                       track |-> "", version |-> v]
    /\ args = 0
    /\ pc = "runUpdate"
    /\ up = [track |-> "", update |-> "nil"]
    /\ ver = NoVersion
    /\ ret = Running
    /\ trace = <<>>
    /\ tries = 0
    /\ err = "nil"
    /\ dl = NoDownload
    /\ msiFile = NoFile
    /\ aptFile = <<>>
    /\ yumFile = <<>>
    /\ rw = NoRewrite
    /\ stdin = Unread

NextVersion == RunUpdate

SpecVersion == InitVersion /\ [][NextVersion]_vars

-----------------------------------------------------------------------------
(* Properties *)

InTrace(e) == \E i \in 1..Len(trace) : trace[i] = e
Count(e) == Cardinality({i \in 1..Len(trace) : trace[i] = e})
\* the position of the first e in trace; 0 when there is none
First(e) ==
    IF InTrace(e) THEN CHOOSE i \in 1..Len(trace) :
                           trace[i] = e /\ \A j \in 1..(i - 1) : trace[j] # e
    ELSE 0

InstallOk == "exec:msiexec /i: exit 0"
InstallFailed == "exec:msiexec /i: exit 1"
Uninstall == "exec:msiexec /x"
ChildRun == env.winMSIEnv # ""

\* C1: the child-side install reports success (a nil result, the "success."
\* line) only if some msiexec /i attempt exited successfully.
C1_SuccessOnlyAfterInstall ==
    ChildRun /\ (InTrace("log:success.") \/ (pc = "done" /\ ret = Nil))
        => InTrace(InstallOk)

\* the msiexec runs of the child, in order
RECURSIVE MsiRuns(_)
MsiRuns(t) ==
    IF t = <<>> THEN <<>>
    ELSE IF Head(t) \in {InstallOk, InstallFailed, Uninstall}
    THEN <<Head(t)>> \o MsiRuns(Tail(t))
    ELSE MsiRuns(Tail(t))

IsPrefix(a, b) == Len(a) <= Len(b) /\ a = SubSeq(b, 1, Len(a))

\* C2: installMSI makes at most two install attempts with exactly one
\* uninstall between them: its msiexec runs are a prefix of
\* install (ok), or of install (failed), uninstall, install.
C2_OneUninstallBetweenTwoInstalls ==
    ChildRun =>
        \/ IsPrefix(MsiRuns(trace), <<InstallOk>>)
        \/ IsPrefix(MsiRuns(trace), <<InstallFailed, Uninstall, InstallOk>>)
        \/ IsPrefix(MsiRuns(trace), <<InstallFailed, Uninstall, InstallFailed>>)

DownloadDone == dl.ret # "none"
DownloadOk == dl.ret = "nil"

\* C3: downloadURLToFile succeeds only if the HEAD probe answered 200 with a
\* declared length > 0, exactly that many bytes were streamed to the file, and
\* their SHA-256 is the digest the checksum text decodes to.
C3_DownloadVerified ==
    DownloadOk =>
        /\ dl.headStatus = 200
        /\ dl.ContentLength > 0
        /\ msiFile.exists
        /\ Len(msiFile.data) = dl.ContentLength
        /\ DecodeString(TrimSpace(dl.hashHex)).ok
        /\ Sha256(msiFile.data) = DecodeString(TrimSpace(dl.hashHex)).bytes

\* a download that succeeded with a body of MaxBody bytes
C3_Witness ==
    DownloadOk /\ pc = "win:authenticode" /\ Len(msiFile.data) = MaxBody

\* C4: a non-success status of the checksum request fails the download, and
\* the artifact is then never requested.
C4_HashStatusFatal ==
    dl.hashStatus = 404 =>
        /\ DownloadDone /\ ~DownloadOk
        /\ ~InTrace("http:GET msi")

\* the lines the gate takes for approval: their first word is y, yes or sure
ApprovingLines ==
    {<<"y">>, <<"Y", "E", "S">>, <<"S", "u", "r", "e">>, <<" ", "y">>,
     <<"y", "e", "s", " ", "n", "o">>}
Approved == updateArgs.yes \/ stdin \in ApprovingLines
Spawn == "exec:selfCopy update"

\* C5: on Windows the child is spawned only after the operator's approval, a
\* download verified for length and hash, and a successful authenticode
\* check, in that order; the parent then exits at once, and a parent that
\* returned spawned no child.
C5_HandoffAfterVerification ==
    /\ InTrace(Spawn) =>
          /\ Approved
          /\ DownloadOk
          /\ Len(msiFile.data) = dl.ContentLength
          /\ Sha256(msiFile.data) = dl.wantHash
          /\ InTrace("verifyAuthenticode: ok")
          /\ First("http:HEAD msi") < First("fs:Create msi")
          /\ First("fs:Create msi") < First("verifyAuthenticode: ok")
          /\ First("verifyAuthenticode: ok") < First(Spawn)
          /\ (~updateArgs.yes => 0 < First("stdin:prompt")
                                 /\ First("stdin:prompt") < First("http:HEAD msi"))
          /\ pc = "exited"
          /\ ret = Running
          /\ Count(Spawn) = 1
          /\ trace[Len(trace)] = "os.Exit(0)"
          /\ trace[Len(trace) - 1] = Spawn
    /\ pc = "done" => ~InTrace(Spawn)
    /\ pc = "exited" => InTrace(Spawn) /\ ~ENABLED Next

\* the parent has spawned the child after an interactive approval
C5_Witness ==
    InTrace(Spawn) /\ ~updateArgs.yes /\ env.GOOS = "windows"

\* the install or upgrade commands of the executors, and the Windows download
InstallSteps ==
    {"exec:apt-get install", "exec:pacman --sync --noconfirm", "exec:dnf install",
     "exec:yum install", "exec:softwareupdate --install", "http:HEAD msi", Spawn}

\* C6: no executor reaches its install step without the ConfirmationGate's
\* approval (--yes, or an affirmative answer of the operator).
C6_InstallOnlyAfterApproval ==
    (\E e \in InstallSteps : InTrace(e)) => Approved

\* the request names both an explicit version and an explicit track
VersionAndTrack == updateArgs.version # NoVersion /\ updateArgs.track # ""

\* C7: a request with both an explicit version and an explicit track is
\* rejected with the validation error before any I/O, however the command
\* is entered.
C7_BothFlagsRejected ==
    VersionAndTrack /\ pc # "runUpdate"
        => pc = "done" /\ ret = Error(ErrBothFlags) /\ trace = <<>>

\* C7 (amended): unless TS_UPDATE_WIN_MSI is set, such a request is rejected
\* before any I/O: with the validation error when no positional argument was
\* given, with flag.ErrHelp otherwise.
C7_BothFlagsRejectedUnlessChild ==
    VersionAndTrack /\ ~ChildRun /\ pc # "runUpdate"
        => /\ pc = "done"
           /\ ret = Error(IF args > 0 THEN ErrHelp ELSE ErrBothFlags)
           /\ trace = <<>>

\* the validation error was returned
C7_Witness ==
    VersionAndTrack /\ ~ChildRun /\ args = 0 /\ pc = "done" /\ ret = Error(ErrBothFlags)

\* the file the rewriter under test works on
SourceFile == IF pc = "rw:apt" THEN aptFile ELSE yumFile
\* a rewriter call has returned, and its read of the file did not fail
Rewritten == rw.err \notin {"none", ErrRead}

\* C8: after a rewrite to track t that succeeded, a second rewrite to t
\* reports "unchanged" and leaves the file as it is (apt and yum alike).
C8_RewriteIdempotent ==
    [][rw.err = "nil" /\ rw'.dstTrack = rw.dstTrack /\ rw'.err # ErrRead
         => /\ rw'.err = "nil"
            /\ ~rw'.rewrote
            /\ aptFile' = aptFile
            /\ yumFile' = yumFile]_vars

\* the chunk that starts the line of chunk i
LineStart(f, i) ==
    CHOOSE j \in 1..i :
        (j = 1 \/ f[j - 1] = "\n") /\ \A k \in j..(i - 1) : f[k] # "\n"

\* chunk i lies on a line whose first non-blank byte is '#'
OnCommentLine(f, i) ==
    \E k \in LineStart(f, i)..(i - 1) :
        f[k] = "#" /\ \A j \in LineStart(f, i)..(k - 1) : f[j] \in {" ", "\r"}

\* the track-scoped URLs of an apt file on its non-comment lines
AptOccurrences(f) ==
    {i \in 1..Len(f) :
        f[i] \in TrackURLs /\ (i = 1 \/ f[i - 1] \notin WordEnd) /\ ~OnCommentLine(f, i)}

\* the track-scoped URLs of a yum file: the values of baseurl= and gpgkey=
YumOccurrences(f) ==
    {i \in 2..Len(f) :
        f[i] \in TrackURLs /\ f[i - 1] \in {"baseurl=", "gpgkey="}
        /\ LineStart(f, i) = i - 1}

Occurrences(f) == IF pc = "rw:apt" THEN AptOccurrences(f) ELSE YumOccurrences(f)
NeedChange(f, t) == {i \in Occurrences(f) : f[i] # trackURLPrefix(t)}
OnTarget(f, t) == {i \in Occurrences(f) : f[i] = trackURLPrefix(t)}

\* a yum section header that does not start with "[tailscale-"
ForeignSection(f) == \E i \in 1..Len(f) : f[i] = "[" /\ (i = 1 \/ f[i - 1] = "\n")

\* C9: a file with no track-scoped URL on a non-comment line, or with more
\* than one URL to change, is rejected as unsupported by both rewriters.
C9_RejectsZeroOrMany ==
    Rewritten /\ (Occurrences(rw.was) = {} \/ Cardinality(NeedChange(rw.was, rw.dstTrack)) > 1)
        => rw.err \in {ErrAptContents, ErrYumSection}

\* C9 (amended): the apt rewriter rejects, without writing, a file with no
\* track-scoped URL on a non-comment line, or with more than one URL to
\* change and none already on the target track; the yum rewriter counts
\* nothing and rejects exactly the files with a foreign section header.
C9_AptRejectsZeroOrManyYumForeign ==
    Rewritten =>
        IF pc = "rw:apt"
        THEN (\/ Occurrences(rw.was) = {}
              \/ (Cardinality(NeedChange(rw.was, rw.dstTrack)) > 1
                  /\ OnTarget(rw.was, rw.dstTrack) = {}))
                => rw.err = ErrAptContents /\ ~rw.rewrote /\ aptFile = rw.was
        ELSE /\ rw.err = ErrYumSection <=> ForeignSection(rw.was)
             /\ rw.err = ErrYumSection => ~rw.rewrote /\ yumFile = rw.was

\* the apt rewriter has rejected a file with two URLs to change
C9_Witness ==
    /\ pc = "rw:apt" /\ rw.err = ErrAptContents
    /\ Cardinality(NeedChange(rw.was, rw.dstTrack)) = 2

\* C10: whenever a rewriter call returns an error, a failed write included,
\* the file is byte-identical to its content before the call.
C10_ErrorLeavesFile ==
    rw.err \notin {"nil", "none"} => SourceFile = rw.was

\* the content a call on file f with target t stores when it rewrites
NewContent(f, t) == IF pc = "rw:apt" THEN AptNewContent(f, t) ELSE YumNewContent(f, t)

\* C10 (amended): a call that returns an error other than a failed write
\* leaves the file byte-identical, and a call that succeeds leaves it
\* unchanged or holding the complete new content.
C10_ErrorBeforeWriteLeavesFile ==
    /\ rw.err \notin {"nil", "none", ErrWrite} => SourceFile = rw.was /\ ~rw.rewrote
    /\ rw.err = "nil" =>
          IF rw.rewrote THEN SourceFile = NewContent(rw.was, rw.dstTrack)
          ELSE SourceFile = rw.was

\* the yum rewriter met a foreign section header after a line it rewrites
C10_Witness ==
    /\ pc = "rw:yum" /\ rw.err = ErrYumSection
    /\ rw.was[1] = "name=" /\ yumFile = rw.was

\* f with the terminator of every line made a single "\n": a carriage return
\* right before a newline or at the end of f is dropped, and a last line
\* without a newline gets one
RECURSIVE DropLineEndCR(_)
DropLineEndCR(f) ==
    IF f = <<>> THEN <<>>
    ELSE IF f[1] = "\r" /\ (Len(f) = 1 \/ f[2] = "\n") THEN DropLineEndCR(Tail(f))
    ELSE <<f[1]>> \o DropLineEndCR(Tail(f))
NewlineTerminated(f) ==
    LET g == DropLineEndCR(f)
    IN  IF f # <<>> /\ f[Len(f)] # "\n" THEN g \o <<"\n">> ELSE g

\* the apt rewriter was called on a file whose only track-scoped URL on a
\* non-comment line, at chunk i, names the other track
OneOtherTrackURL(i) ==
    /\ pc = "rw:apt" /\ Rewritten
    /\ AptOccurrences(rw.was) = {i}
    /\ rw.was[i] # trackURLPrefix(rw.dstTrack)

\* C11: on a file with exactly one track-scoped URL, naming the other track,
\* the apt rewriter's output is the input with that URL replaced and every
\* other byte, line terminators and final newline included, unchanged.
C11_AptOnlyURLReplaced ==
    \A i \in 1..Len(rw.was) :
        OneOtherTrackURL(i) /\ rw.err = "nil"
            => aptFile = [rw.was EXCEPT ![i] = trackURLPrefix(rw.dstTrack)]

\* C11 (amended): on such a file the rewriter does rewrite, and its output is
\* the input with that URL replaced and every line, comment lines included,
\* otherwise unchanged but for its terminator, which becomes a single "\n"
\* (a "\r" before it is dropped, a missing final newline is added).
C11_AptURLReplacedEndsNormalised ==
    \A i \in 1..Len(rw.was) :
        OneOtherTrackURL(i)
            => /\ rw.rewrote /\ rw.err \in {"nil", ErrWrite}
               /\ rw.err = "nil" =>
                    aptFile = NewlineTerminated(
                                [rw.was EXCEPT ![i] = trackURLPrefix(rw.dstTrack)])

\* a file ending in "\r" without a final newline was rewritten
C11_Witness ==
    /\ \E i \in 1..Len(rw.was) : OneOtherTrackURL(i)
    /\ rw.err = "nil" /\ rw.was[Len(rw.was)] = "\r"
    /\ Len(aptFile) = Len(rw.was)

\* the lines of f, split at every newline
RECURSIVE SplitLines(_)
SplitLines(f) ==
    IF f = <<>> THEN <<>>
    ELSE LET c == Cut(f, "\n") IN <<c[1]>> \o SplitLines(c[2])

OtherTrack(t) == IF t = "stable" THEN "unstable" ELSE "stable"
IsHeader(line) == line # <<>> /\ line[1] \in {"[", "[tailscale-"}
IsName(line) == line # <<>> /\ line[1] = "name="
IsURLSetting(line) == line # <<>> /\ line[1] \in {"baseurl=", "gpgkey="}
Mentions(line, x) == \E i \in 1..Len(line) : line[i] = x

\* every header, name= line and baseurl=/gpgkey= line of f references track t
\* and none of them the other track
AllOnTrack(f, t) ==
    \A k \in 1..Len(SplitLines(f)) :
        LET line == SplitLines(f)[k]
        IN  /\ IsHeader(line) => line = <<"[tailscale-", t, "]">>
            /\ IsName(line) => line = <<"name=", "Tailscale", " ", t>>
            /\ IsURLSetting(line) =>
                 /\ Mentions(line, trackURLPrefix(t))
                 /\ ~Mentions(line, trackURLPrefix(OtherTrack(t)))

\* C12: after a successful yum rewrite to track t the header, the name= line
\* and every baseurl=/gpgkey= line of the file reference t.
C12_YumAllOnTrack ==
    pc = "rw:yum" /\ rw.err = "nil" => AllOnTrack(yumFile, rw.dstTrack)

\* newUpdater was called: the process is not the elevated child and runUpdate
\* let the request through
Dispatching ==
    /\ pc # "runUpdate" /\ ~ChildRun /\ args = 0 /\ ~VersionAndTrack

\* the strategy a distribution declares, "nil" when it declares none
Declared(distro) ==
    CASE distro = "synology" -> "updateSynology"
      [] distro = "debian" -> "updateDebLike"
      [] distro = "arch" -> "updateArchLike"
      [] OTHER -> "nil"

\* C13: on Linux a strategy declared by the distribution is the one
\* selected, whatever executables are on the search path.
C13_DistroPriority ==
    Dispatching /\ env.GOOS = "linux" /\ Declared(env.distro) # "nil" /\ up.update # "nil"
        => up.update = Declared(env.distro)

\* the strategy of the first executable found, probing pacman, apt-get, dnf,
\* yum in that order; "nil" when none is found
FirstFound(exes) ==
    IF "pacman" \in exes THEN "updateArchLike"
    ELSE IF "apt-get" \in exes THEN "updateDebLike"
    ELSE IF "dnf" \in exes THEN "updateFedoraLike(dnf)"
    ELSE IF "yum" \in exes THEN "updateFedoraLike(yum)"
    ELSE "nil"

\* the request passes the track switch of newUpdater
TrackAccepted ==
    /\ updateArgs.track \in {"", "stable", "unstable"}
    /\ updateArgs.track = "" /\ updateArgs.version # NoVersion
         => versionIsStable(updateArgs.version).wellFormed

Unsupported == pc = "done" /\ ret = Error(ErrUnsupported) /\ up.update = "nil" /\ trace = <<>>

BuildTrack == IF env.unstableBuild THEN "unstable" ELSE "stable"

\* C15: an explicit track must be stable or unstable; otherwise the track is
\* inferred from an explicit version, which must be well-formed; otherwise it
\* is the channel of the running build; a validation error comes before any I/O.
C15_TrackResolved ==
    Dispatching =>
        IF updateArgs.track \notin {"", "stable", "unstable"}
        THEN pc = "done" /\ ret = Error(ErrUnknownTrack) /\ trace = <<>>
        ELSE IF updateArgs.track # ""
        THEN /\ ret.err \notin {ErrUnknownTrack, ErrMalformedVersion}
             /\ up.update # "nil" => up.track = updateArgs.track
        ELSE IF updateArgs.version # NoVersion
        THEN LET s == versionIsStable(updateArgs.version)
             IN  IF ~s.wellFormed
                 THEN pc = "done" /\ ret = Error(ErrMalformedVersion) /\ trace = <<>>
                 ELSE /\ ret.err \notin {ErrUnknownTrack, ErrMalformedVersion}
                      /\ up.update # "nil" =>
                           up.track = (IF s.stable THEN "stable" ELSE "unstable")
        ELSE /\ ret.err \notin {ErrUnknownTrack, ErrMalformedVersion}
             /\ up.update # "nil" => up.track = BuildTrack

\* an odd version given to a stable build selected the unstable track
C15_Witness ==
    /\ Dispatching /\ updateArgs.track = "" /\ updateArgs.version = UnstableVersion
    /\ ~env.unstableBuild /\ up.track = "unstable"

\* the dot-separated components of v
RECURSIVE Components(_)
Components(v) ==
    LET c == Cut(v, ".")
    IN  IF c[3] THEN <<c[1]>> \o Components(c[2]) ELSE <<v>>

\* s is a decimal integer: digits after an optional sign
IsInteger(s) ==
    LET body == IF s # <<>> /\ s[1] \in {"+", "-"} THEN Tail(s) ELSE s
    IN  body # <<>> /\ \A i \in 1..Len(body) : body[i] \in Digits
IsEven(s) == s[Len(s)] \in {"0", "2", "4", "6", "8"}

\* the track was inferred, or failed to be, from --version
Inferring == Dispatching /\ updateArgs.track = "" /\ updateArgs.version # NoVersion

\* what is observed of versionIsStable(--version) when n components are asked
\* for: the malformed-version error, or the track of the second component
InfersFrom(n) ==
    LET c == Components(updateArgs.version)
    IN  IF Len(c) < n \/ ~IsInteger(c[2])
        THEN pc = "done" /\ ret = Error(ErrMalformedVersion)
        ELSE /\ ret.err # ErrMalformedVersion
             /\ up.track = (IF IsEven(c[2]) THEN "stable" ELSE "unstable")

\* C16: a version is malformed exactly when it has fewer than two
\* dot-separated components or its second component is not numeric; any
\* other, "1.44" included, is stable iff its second component is even.
C16_TwoComponentsSuffice == Inferring => InfersFrom(2)

\* C16 (amended): a version is malformed exactly when it has fewer than three
\* dot-separated components (no second dot) or its second component is not a
\* decimal integer; any other is stable iff its second component is even.
C16_ThreeComponentsNeeded == Inferring => InfersFrom(3)

\* "1.5.4" selected the unstable track on a stable build
C16_Witness ==
    /\ Inferring /\ updateArgs.version = <<"1", ".", "5", ".", "4">>
    /\ ~env.unstableBuild /\ up.track = "unstable"

\* the strategies that call requestedTailscaleVersion
UsesResolver ==
    up.update \in {"updateDebLike", "updateFedoraLike(dnf)", "updateFedoraLike(yum)",
                   "updateWindows"}

\* C17: an explicit version is used verbatim with no HTTP request; otherwise
\* a version is returned only after a 200 answer that decoded to a non-empty
\* Version, a non-200 answer is an error, and no second request is made.
C17_VersionOnlyFrom200 ==
    UsesResolver =>
        /\ Count("http:GET meta") <= 1
        /\ updateArgs.version # NoVersion =>
              /\ ~InTrace("http:GET meta")
              /\ ver \in {NoVersion, updateArgs.version}
        /\ updateArgs.version = NoVersion /\ ver # NoVersion =>
              InTrace("http:meta: 200 OK")
        /\ InTrace("http:meta: 404 Not Found") =>
              pc = "done" /\ ret.err \in {ErrDecode, ErrNoVersion}

\* the errors downloadURLToFile returns before os.Create succeeded
BeforeCreate ==
    {ErrNet, ErrHeadStatus, ErrHeadLength, ErrHashStatus, ErrHashRead, ErrHex,
     ErrGetStatus, ErrCreate}
\* the errors it returns with the file created
AfterCreate == {ErrCopy, ErrShort, ErrClose, ErrHash}

\* C18: after a run of downloadURLToFile that returned an error no artifact
\* file written by that run exists at the destination.
C18_NoFileAfterError ==
    DownloadDone /\ ~DownloadOk => ~msiFile.exists

\* C18 (amended): a run that fails before os.Create succeeded writes no file;
\* a run that fails later leaves the file it created, holding what was copied
\* and at most Content-Length bytes, and that file is never verified for
\* authenticode nor handed to a child.
C18_FailedFileKeptNotUsed ==
    /\ dl.ret \in BeforeCreate => ~msiFile.exists
    /\ dl.ret \in AfterCreate =>
          /\ msiFile.exists /\ Len(msiFile.data) = dl.n
          /\ pc = "done" /\ ret = Error(dl.ret)
          /\ ~InTrace("verifyAuthenticode: ok") /\ ~InTrace(Spawn)
    /\ DownloadDone => dl.ret \in BeforeCreate \cup AfterCreate \cup {"nil"}
    /\ msiFile.exists => Len(msiFile.data) <= dl.ContentLength

\* a download that failed the digest comparison left its file behind
C18_Witness ==
    dl.ret = ErrHash /\ msiFile.exists /\ Len(msiFile.data) = MaxBody /\ pc = "done"

\* the gate read a line and declined
Refused == pc = "done" /\ ret.err = errUserAborted

\* C19: with --yes the gate approves without reading; otherwise it approves
\* exactly when the line read is, in any case, y, yes or sure, and declines
\* with errUserAborted on anything else, an empty line or failed read included.
C19_WholeLineDecides ==
    /\ updateArgs.yes => stdin = Unread /\ ~InTrace("stdin:prompt") /\ ~Refused
    /\ ~updateArgs.yes /\ stdin # Unread =>
          (~Refused <=> stdin \in {<<"y">>, <<"Y", "E", "S">>, <<"S", "u", "r", "e">>})

\* C19 (amended): ... otherwise it approves exactly when the first
\* space-delimited word of the line read is, in any case, y, yes or sure,
\* whatever follows that word.
C19_FirstWordDecides ==
    /\ updateArgs.yes => stdin = Unread /\ ~InTrace("stdin:prompt") /\ ~Refused
    /\ ~updateArgs.yes /\ stdin # Unread => (~Refused <=> stdin \in ApprovingLines)
    /\ Refused => ~updateArgs.yes /\ stdin # Unread

\* the line "yes no" was taken for approval
C19_Witness ==
    ~updateArgs.yes /\ stdin = <<"y", "e", "s", " ", "n", "o">> /\ ~Refused

\* the hint the remediation wrapper of the selected executor attaches
RemediationHint ==
    CASE up.update = "updateArchLike" -> PacmanHint
      [] up.update = "updateFedoraLike(dnf)" -> FedoraHint("dnf")
      [] up.update = "updateFedoraLike(yum)" -> FedoraHint("yum")
      [] OTHER -> ""

\* C20: a refusal is returned as errUserAborted itself, without remediation
\* text; in the Arch-like and Fedora-like executors every other error
\* returned once the wrapper is installed (that is, past the elevation check)
\* carries the package manager's hint; no other executor attaches a hint.
C20_RefusalNeverWrapped ==
    /\ ~updateArgs.yes /\ stdin # Unread /\ stdin \notin ApprovingLines =>
          pc = "done" /\ ret = Error(errUserAborted)
    /\ ret.err = errUserAborted => ret.hint = ""
    /\ pc = "done" /\ ret.err \notin {"nil", errUserAborted} /\ ~ChildRun =>
          ret.hint = (IF ret.err = "must be root; use sudo" THEN "" ELSE RemediationHint)
    /\ ret.err \in {"nil", "none"} => ret.hint = ""

\* the Arch-like executor returned a refusal
C20_Witness ==
    up.update = "updateArchLike" /\ stdin = <<"n", "o">> /\ ret = Error(errUserAborted)

\* the events of installMSI and of runUpdate around it
MsiEvents == {InstallOk, InstallFailed, Uninstall, "log:success."}

\* C21: with TS_UPDATE_WIN_MSI set the command installs the artifact at once:
\* no argument or flag validation, no track or version resolution, no
\* dispatch, no prompt, no download; it returns what installMSI returns.
C21_MarkerInstallsDirectly ==
    ChildRun =>
        /\ pc \in {"runUpdate", "msi:install", "msi:uninstall", "done"}
        /\ \A i \in 1..Len(trace) : trace[i] \in MsiEvents
        /\ up = [track |-> "", update |-> "nil"]
        /\ ver = NoVersion /\ stdin = Unread /\ dl = NoDownload /\ msiFile = NoFile
        /\ rw = NoRewrite
        /\ pc \in {"msi:uninstall", "done"} =>
              trace # <<>> /\ trace[1] \in {InstallOk, InstallFailed}
        /\ pc = "done" => ret = (IF err = "nil" THEN Nil ELSE Error(err))

\* positional arguments and both flags were given, and the install went ahead
C21_Witness ==
    /\ ChildRun /\ args > 0 /\ VersionAndTrack
    /\ pc = "done" /\ ret = Nil /\ trace = <<InstallOk, "log:success.">>

RootError == "must be root; use sudo"
DebLike == ~ChildRun /\ up.update = "updateDebLike"
ArchLike == ~ChildRun /\ up.update = "updateArchLike"
FedoraLike == ~ChildRun /\ up.update \in {"updateFedoraLike(dnf)", "updateFedoraLike(yum)"}
FedoraInstall == IF up.update = "updateFedoraLike(dnf)" THEN "exec:dnf install"
                 ELSE "exec:yum install"
PacmanInfo == "exec:pacman --sync --refresh --info"
PacmanInstall == "exec:pacman --sync --noconfirm"

\* if b happened, a happened before it
Precedes(a, b) == InTrace(b) => InTrace(a) /\ First(a) < First(b)
\* a target version was resolved and the short-circuit let the run go on
PastShortCircuit == ver # NoVersion /\ ver # CurrentVersion /\ ~updateArgs.dryRun
\* the operator was asked, or --yes was given, before e
GateBefore(e) ==
    InTrace(e) => Approved /\ (~updateArgs.yes => Precedes("stdin:prompt", e))

\* C22: in every package-manager executor the short-circuit comes before the
\* elevation check (a dry run never fails with a permission error), the
\* source file is rewritten before the operator is asked, and the operator is
\* asked before the install command.
C22_ShortCircuitFirstRewriteBeforeGate ==
    DebLike \/ ArchLike \/ FedoraLike =>
        /\ updateArgs.dryRun => ret.err # RootError
        /\ Precedes("fs:ReadFile yum", "stdin:prompt")
        /\ GateBefore("exec:apt-get install")
        /\ GateBefore(FedoraInstall)
        /\ GateBefore(PacmanInstall)

\* C22 (amended): updateDebLike resolves the version, short-circuits, checks
\* elevation, rewrites the source file and installs, without asking;
\* updateFedoraLike checks elevation first, then resolves, short-circuits,
\* asks, rewrites and installs; updateArchLike checks elevation first, then
\* queries pacman, short-circuits, asks and installs.
C22_OrderPerExecutor ==
    /\ DebLike =>
          /\ ret.err = RootError => PastShortCircuit /\ ~InTrace("fs:ReadFile apt")
          /\ InTrace("fs:ReadFile apt") => PastShortCircuit /\ env.euid = 0
          /\ updateArgs.version = NoVersion => Precedes("http:GET meta", "fs:ReadFile apt")
          /\ Precedes("fs:ReadFile apt", "exec:apt-get update")
          /\ Precedes("exec:apt-get update", "exec:apt-get install")
          /\ ~InTrace("stdin:prompt") /\ stdin = Unread
    /\ FedoraLike =>
          /\ env.euid # 0 =>
                /\ pc \in {"fed:version", "done"} /\ trace = <<>> /\ ver = NoVersion
                /\ pc = "done" => ret = Error(RootError)
          /\ pc \notin {"fed:version", "done"} => PastShortCircuit
          /\ InTrace("fs:ReadFile yum") => PastShortCircuit
          /\ updateArgs.version = NoVersion => Precedes("http:GET meta", "fs:ReadFile yum")
          /\ GateBefore("fs:ReadFile yum")
          /\ Precedes("fs:ReadFile yum", FedoraInstall)
    /\ ArchLike =>
          /\ env.euid # 0 =>
                /\ pc \in {"arch:info", "done"} /\ trace = <<>> /\ ver = NoVersion
                /\ pc = "done" => ret = Error(RootError)
          /\ pc \notin {"arch:info", "done"} => PastShortCircuit
          /\ Precedes(PacmanInfo, PacmanInstall)
          /\ GateBefore(PacmanInstall)
          /\ InTrace(PacmanInstall) => PastShortCircuit
          /\ rw = NoRewrite

\* the Fedora-like executor asked, then rewrote the repo file, then installed
C22_Witness ==
    /\ FedoraLike /\ ~updateArgs.yes /\ updateArgs.version = NoVersion
    /\ InTrace("fs:WriteFile yum") /\ InTrace(FedoraInstall)
    /\ First("stdin:prompt") < First("fs:ReadFile yum")

\* the events that write the source file, download the artifact or install
PrivilegedSteps ==
    {"fs:WriteFile apt", "fs:WriteFile yum", "fs:MkdirAll msiDir",
     "fs:MkdirAll msiDir: created", "http:HEAD msi", "http:GET sha256",
     "http:GET msi", "fs:Create msi", "exec:apt-get update", "exec:apt-get install",
     "exec:dnf install", "exec:yum install", PacmanInstall, Spawn}

\* an executor that needs elevation runs without it
Unprivileged ==
    \/ (DebLike \/ ArchLike \/ FedoraLike) /\ env.euid # 0
    \/ ~ChildRun /\ up.update = "updateWindows" /\ ~env.elevated

\* C23: without super-user identity (Debian-, Fedora-, Arch-like) or without
\* elevation (Windows) an executor never writes the source file, downloads an
\* artifact or installs, and where it would go on past the short-circuit it
\* returns a permission error.
C23_NoPrivilegeNoChange ==
    Unprivileged =>
        /\ \A i \in 1..Len(trace) : trace[i] \notin PrivilegedSteps
        /\ rw = NoRewrite /\ msiFile = NoFile /\ dl = NoDownload /\ stdin = Unread
        /\ pc = "done" /\ PastShortCircuit =>
              ret = Error(IF up.update = "updateWindows" THEN ErrAdmin ELSE RootError)
        /\ pc = "done" /\ (FedoraLike \/ ArchLike) => ret = Error(RootError)
        /\ pc = "done" /\ ret.err \in {ErrAdmin, RootError} => ret.hint = ""

\* a Debian-like run by a plain user stopped at the elevation check
C23_Witness ==
    /\ DebLike /\ env.euid # 0 /\ ver = StableVersion /\ ~updateArgs.dryRun
    /\ pc = "done" /\ ret = Error(RootError)

\* C24: when some non-comment line of the apt source file already holds the
\* target track's URL, the apt rewriter reports "unchanged" with no error and
\* leaves the file as it is, other-track URLs included.
C24_AptOnTargetUnchanged ==
    pc = "rw:apt" /\ Rewritten /\ OnTarget(rw.was, rw.dstTrack) # {}
        => rw.err = "nil" /\ ~rw.rewrote /\ aptFile = rw.was

\* a file with both tracks' URLs, not newline-terminated, was left alone
C24_Witness ==
    /\ pc = "rw:apt" /\ Rewritten
    /\ OnTarget(rw.was, rw.dstTrack) # {} /\ NeedChange(rw.was, rw.dstTrack) # {}
    /\ rw.was[Len(rw.was)] # "\n"
    /\ rw.err = "nil" /\ ~rw.rewrote /\ aptFile = rw.was

\* what changes the system or asks the operator: writes, the prompt,
\* downloads, installers, uninstallers and the spawned copy
ChangingSteps ==
    PrivilegedSteps \cup MsiEvents \cup
        {"stdin:prompt", "exec:softwareupdate --install", "fs:makeSelfCopy"}
\* an executor resolved a target that is the running version, or a dry run
ShortCircuited ==
    ~ChildRun /\ ver # NoVersion /\ (ver = CurrentVersion \/ updateArgs.dryRun)

C26_RefusalChangesNothing ==
    Refused =>
        /\ \A i \in 1..Len(trace) : trace[i] \notin ChangingSteps \ {"stdin:prompt", "fs:MkdirAll msiDir"}
        /\ rw = NoRewrite /\ dl = NoDownload /\ msiFile = NoFile

====
